---- MODULE Spec2Model ----
(***************************************************************************)
(* pka2xml: the Packet Tracer container codec of include/pka2xml.hpp.      *)
(* Buffers are sequences of bytes (0..255), 1-based here where the C++ is  *)
(* 0-based.  A call of a codec function runs stage by stage; an exception  *)
(* ends the call.  zlib, Crypto++ EAX and the Crypto++ Base64Decoder are   *)
(* libraries: they are modelled at the call sites by what they do to the   *)
(* bytes (stored-block zlib streams, a keyed stream cipher with a keyed    *)
(* position-weighted tag, the skip-and-regroup base64 decoder).            *)
(* Memory exhaustion (std::bad_alloc) is not modelled.                     *)
(***************************************************************************)
EXTENDS Integers, Sequences, FiniteSets, TLC

VARIABLES fn, pc, arg, buf, pre, stages, ret, origin, nbytes, hdr, statics, prev, thr, keystream, framelen, profile, batch

vars == <<fn, pc, arg, buf, pre, stages, ret, origin, nbytes, hdr, statics, prev, thr, keystream, framelen, profile, batch>>

(***************************************************************************)
(* Bytes and C++ integer conversions                                       *)
(***************************************************************************)
Byte == 0..255

\* conversion of an integer to unsigned char / char: the low 8 bits
Low8(v) == v % 256

RECURSIVE BitXor(_, _)
\* a ^ b on non-negative integers
BitXor(a, b) ==
    IF a = 0 THEN b
    ELSE IF b = 0 THEN a
    ELSE ((a + b) % 2) + 2 * BitXor(a \div 2, b \div 2)

\* ~i on a two's-complement integer
BitNot(i) == -i - 1

RECURSIVE SumSeq(_)
SumSeq(s) ==
    IF s = <<>> THEN 0
    ELSE IF Len(s) = 1 THEN s[1]
    ELSE LET h == Len(s) \div 2
         IN  SumSeq(SubSeq(s, 1, h)) + SumSeq(SubSeq(s, h + 1, Len(s)))

Min(a, b) == IF a < b THEN a ELSE b

(***************************************************************************)
(* Results of a call: a returned string, a returned bool, or an exception  *)
(***************************************************************************)
NoRet == [kind |-> "none", val |-> <<>>, flag |-> FALSE, exc |-> "", code |-> 0]

Ok(v) == [kind |-> "ok", val |-> v, flag |-> FALSE, exc |-> "", code |-> 0]

OkBool(b) == [kind |-> "ok", val |-> <<>>, flag |-> b, exc |-> "", code |-> 0]

\* throw <int>
ThrowInt(c) == [kind |-> "throw", val |-> <<>>, flag |-> FALSE, exc |-> "int", code |-> c]

\* throw of a C++ exception object of class e
ThrowExc(e) == [kind |-> "throw", val |-> <<>>, flag |-> FALSE, exc |-> e, code |-> 0]

(***************************************************************************)
(* zlib, as called at pka2xml.hpp:43 and :73                               *)
(***************************************************************************)
Z_OK == 0

Z_DATA_ERROR == -3

Z_BUF_ERROR == -5

\* the Adler-32 checksum of data, as its four big-endian bytes
Adler32(data) ==
    LET a == (1 + SumSeq(data)) % 65521
        b == SumSeq([i \in 1..Len(data) |-> (1 + SumSeq(SubSeq(data, 1, i))) % 65521]) % 65521
    IN  <<b \div 256, b % 256, a \div 256, a % 256>>

\* ::compress2(dest, &len, data, nbytes, -1): a zlib stream holding data.  The
\* stream is written as one final stored block (a stream every zlib inflates
\* to data); destCap is the room at dest, Z_BUF_ERROR when the stream exceeds it.
zlib_compress2(data, destCap) ==
    LET n == Len(data)
        stream == <<120, 156, 1, n % 256, n \div 256, 255 - (n % 256), 255 - (n \div 256)>>
                  \o data \o Adler32(data)
    IN  IF Len(stream) > destCap
        THEN [res |-> Z_BUF_ERROR, out |-> <<>>]
        ELSE [res |-> Z_OK, out |-> stream]

\* ::uncompress(dest, &destLen, src, srcLen) of zlib >= 1.2.9: the return code,
\* the value left in destLen and the bytes written to dest.  With destLen = 0
\* zlib inflates into a one-byte buffer of its own and leaves destLen at 0.
\* Streams other than a single final stored block are rejected as corrupt.
zlib_uncompress(src, destLen) ==
    LET n     == Len(src)
        cap   == IF destLen = 0 THEN 1 ELSE destLen
        err(c, m) == [res |-> c, len |-> IF destLen = 0 THEN 0 ELSE m, out |-> <<>>]
    IN  IF n < 2 THEN err(Z_DATA_ERROR, 0)
        ELSE IF \/ src[1] % 16 # 8
                \/ src[1] \div 16 > 7
                \/ (src[1] * 256 + src[2]) % 31 # 0
                \/ (src[2] \div 32) % 2 = 1
        THEN err(Z_DATA_ERROR, 0)
        ELSE IF n < 3 THEN err(Z_DATA_ERROR, 0)
        ELSE IF src[3] % 8 # 1 THEN err(Z_DATA_ERROR, 0)
        ELSE IF n < 7 THEN err(Z_DATA_ERROR, 0)
        ELSE
        LET LEN   == src[4] + 256 * src[5]
            NLEN  == src[6] + 256 * src[7]
            avail == Min(LEN, n - 7)
            data  == SubSeq(src, 8, 7 + avail)
            trail == SubSeq(src, 8 + avail, Min(n, 11 + avail))
        IN  IF LEN + NLEN # 65535 THEN err(Z_DATA_ERROR, 0)
            ELSE IF LEN > cap
            THEN IF destLen = 0 THEN err(Z_DATA_ERROR, 0)
                 ELSE IF avail >= cap THEN err(Z_BUF_ERROR, cap)
                 ELSE err(Z_DATA_ERROR, avail)
            ELSE IF avail < LEN THEN err(Z_DATA_ERROR, avail)
            ELSE IF Len(trail) < 4
            THEN IF destLen # 0 /\ LEN = cap THEN err(Z_BUF_ERROR, LEN)
                 ELSE err(Z_DATA_ERROR, LEN)
            ELSE IF trail # Adler32(data) THEN err(Z_DATA_ERROR, LEN)
            ELSE [res |-> Z_OK,
                  len |-> IF destLen = 0 THEN 0 ELSE LEN,
                  out |-> IF destLen = 0 THEN <<>> ELSE data]

(***************************************************************************)
(* uncompress / compress (pka2xml.hpp:30-88)                               *)
(***************************************************************************)
\* (data[0] << 24) | (data[1] << 16) | (data[2] << 8) | data[3] for data[0] < 0x80,
\* where the int is non-negative and converts to unsigned long unchanged
uncompress_len(data) ==
    data[1] * 16777216 + data[2] * 65536 + data[3] * 256 + data[4]

\* uncompress(data, nbytes).  With data[0] >= 0x80 the int is negative, its
\* conversion to unsigned long exceeds vector::max_size() and the vector's
\* constructor throws std::length_error.
uncompress(data) ==
    IF Len(data) < 4 THEN ThrowInt(Z_DATA_ERROR)
    ELSE IF data[1] >= 128 THEN ThrowExc("std::length_error")
    ELSE
    LET len == uncompress_len(data)
        z   == zlib_uncompress(SubSeq(data, 5, Len(data)), len)
    IN  IF z.res # Z_OK THEN ThrowInt(z.res)
        ELSE IF z.len # len THEN ThrowInt(Z_DATA_ERROR)
        ELSE Ok(z.out \o [i \in 1..(len - Len(z.out)) |-> 0])

\* compress_header with the size stored least significant byte first
compress_header_le(n) ==
    << (n % 256),
       ((n \div 256) % 256),
       ((n \div 65536) % 256),
       ((n \div 16777216) % 256) >>

\* compress_header with buf[1] shifted by 8 instead of 16: (n & 0x00ff0000) >> 8
\* has no bits below bit 8, so the byte stored is 0
compress_header_shift(n) ==
    << ((n \div 16777216) % 256),
       0,
       ((n \div 256) % 256),
       (n % 256) >>

\* buf[0..3] of compress for a buffer of nbytes bytes (0 <= nbytes < 2^31)
compress_header(n) ==
    << ((n \div 16777216) % 256),
       ((n \div 65536) % 256),
       ((n \div 256) % 256),
       (n % 256) >>

\* compress(data, nbytes)
compress(data) ==
    LET n   == Len(data)
        len == n + n \div 100 + 13
        z   == zlib_compress2(data, len)
    IN  IF z.res # Z_OK THEN ThrowInt(z.res)
        ELSE Ok(compress_header(n) \o z.out)

(***************************************************************************)
(* Crypto++ EAX<Twofish> (pka2xml.hpp:109-110, 122-124, 261-262, 274-276)   *)
(***************************************************************************)
\* std::array<unsigned char, 16>::size()
KeySize == 16

\* the tag AuthenticatedEncryptionFilter appends: EAX's default, one cipher block
TagLen == 16

\* byte i (1-based) of the key stream under (key, iv)
eax_keystream(key, iv, i) ==
    Low8(3 * key[((i - 1) % KeySize) + 1] + 5 * iv[((i - 1) % KeySize) + 1] + 29 * i + 7)

\* the tag over ciphertext c under (key, iv): every byte of it changes when one
\* byte of c changes or moves
eax_tag(key, iv, c) ==
    LET s == SumSeq([i \in 1..Len(c) |-> (c[i] + 1) * (2 * i + 1)])
    IN  [j \in 1..TagLen |-> Low8(s + key[j] + 3 * iv[j] + 11 * j)]

\* StringSource -> AuthenticatedEncryptionFilter -> StringSink: ciphertext, then tag
eax_encrypt(key, iv, plain) ==
    LET c == [i \in 1..Len(plain) |-> BitXor(plain[i], eax_keystream(key, iv, i))]
    IN  c \o eax_tag(key, iv, c)

\* StringSource -> AuthenticatedDecryptionFilter -> StringSink: the plaintext, or
\* HashVerificationFailed when the input is shorter than a tag or the tag differs
eax_decrypt(key, iv, data) ==
    LET n == Len(data) - TagLen
        c == SubSeq(data, 1, n)
    IN  IF n < 0 \/ SubSeq(data, n + 1, Len(data)) # eax_tag(key, iv, c)
        THEN [ok |-> FALSE, out |-> <<>>]
        ELSE [ok |-> TRUE,
              out |-> [i \in 1..n |-> BitXor(c[i], eax_keystream(key, iv, i))]]

(***************************************************************************)
(* Crypto++ Base64Decoder (pka2xml.hpp:201-203)                            *)
(***************************************************************************)
\* the decoder's lookup table: the 6-bit value of a character, 256 for a
\* character outside the alphabet ('=' included)
b64_lookup(c) ==
    IF c \in 65..90 THEN c - 65
    ELSE IF c \in 97..122 THEN c - 71
    ELSE IF c \in 48..57 THEN c + 4
    ELSE IF c = 43 THEN 62
    ELSE IF c = 47 THEN 63
    ELSE 256

\* characters outside the alphabet are skipped; the 6-bit values of the others
\* are concatenated and every complete 8 bits is one output byte
Base64Decoder(text) ==
    LET all == [i \in 1..Len(text) |-> b64_lookup(text[i])]
        v   == SelectSeq(all, LAMBDA x : x < 256)
        n   == (6 * Len(v)) \div 8
        byte(j) ==
            LET s == 4 * (j \div 3)
            IN  CASE j % 3 = 0 -> v[s + 1] * 4 + v[s + 2] \div 16
                  [] j % 3 = 1 -> (v[s + 2] % 16) * 16 + v[s + 3] \div 4
                  [] j % 3 = 2 -> (v[s + 3] % 4) * 64 + v[s + 4]
    IN  [k \in 1..n |-> byte(k - 1)]

\* text is base64 in the strict sense: groups of four characters of the
\* alphabet, the last group ending in at most two '='
WellFormedBase64(text) ==
    /\ Len(text) % 4 = 0
    /\ \E pad \in 0..2 :
          /\ pad <= Len(text)
          /\ \A i \in 1..Len(text) :
                IF i > Len(text) - pad THEN text[i] = 61 ELSE b64_lookup(text[i]) < 256

(***************************************************************************)
(* int arithmetic of stage 1 on lengths of any size (pka2xml.hpp:117).     *)
(* A 32-bit int is held as its four bytes, least significant first; the    *)
(* g++ builds of the Makefile multiply and subtract modulo 2^32.           *)
(***************************************************************************)
\* the k base-256 digits of n, least significant first (0 <= n < 2^31)
Digits(n, k) == [j \in 1..k |-> IF j <= 4 THEN (n \div (256 ^ (j - 1))) % 256 ELSE 0]

\* the sum of the digit products a[p] * b[q] of weight 256^(j-1)
Column(a, b, j) ==
    SumSeq([p \in 1..j |-> IF p <= Len(a) /\ j + 1 - p <= Len(b) THEN a[p] * b[j + 1 - p] ELSE 0])

RECURSIVE Carry(_, _, _)
\* the carry out of digit j of the product a * b
Carry(a, b, j) == IF j = 0 THEN 0 ELSE (Column(a, b, j) + Carry(a, b, j - 1)) \div 256

\* the low k digits of the product a * b; all of them when k = Len(a) + Len(b)
MulDigits(a, b, k) == [j \in 1..k |-> (Column(a, b, j) + Carry(a, b, j - 1)) % 256]

RECURSIVE Borrow(_, _, _)
\* the borrow out of digit j of a - b
Borrow(a, b, j) ==
    IF j = 0 THEN 0
    ELSE IF a[j] - b[j] - Borrow(a, b, j - 1) < 0 THEN 1 ELSE 0

\* the digits of a - b modulo 256^Len(a)
SubDigits(a, b) == [j \in 1..Len(a) |-> (a[j] - b[j] - Borrow(a, b, j - 1)) % 256]

\* stage 1 with a multiplication that stops at INT_MAX instead of wrapping
decrypt_keystream_saturating(length, i) ==
    LET l == Digits(length, 4)
        exact == MulDigits(Digits(i, 4), l, 8)
        big == (\E j \in 5..8 : exact[j] # 0) \/ exact[4] >= 128
        prod == IF big THEN <<255, 255, 255, 127>> ELSE SubSeq(exact, 1, 4)
    IN  SubDigits(l, prod)[1]

\* (char)(length - i * length) in int arithmetic: the keystream byte of stage 1
decrypt_keystream(length, i) ==
    LET l == Digits(length, 4)
    IN  SubDigits(l, MulDigits(Digits(i, 4), l, 4))[1]

(***************************************************************************)
(* The stages of decrypt, decrypt2, decrypt_old and encrypt                *)
(***************************************************************************)
\* stage 1 reading input[i] instead of input[length + ~i]
decrypt_stage1_noreverse(input) ==
    LET length == Len(input)
    IN  [k \in 1..length |->
            LET i == k - 1
            IN  Low8(BitXor(input[i + 1], Low8(length - i * length)))]

\* decrypt, stage 1 (pka2xml.hpp:112-119).  i runs over 0..length-1; the int
\* result of char ^ int is converted to char on assignment.
decrypt_stage1(input) ==
    LET length == Len(input)
    IN  [k \in 1..length |->
            LET i == k - 1
            IN  Low8(BitXor(input[(length + BitNot(i)) + 1], Low8(length - i * length)))]

\* stage 3 with the key stream one off: output.size() - i - 1
decrypt_stage3_offbyone(output) ==
    [k \in 1..Len(output) |->
        LET i == k - 1
        IN  Low8(BitXor(output[i + 1], Low8(Len(output) - i - 1)))]

\* decrypt, stage 3 (pka2xml.hpp:126-129)
decrypt_stage3(output) ==
    [k \in 1..Len(output) |->
        LET i == k - 1
        IN  Low8(BitXor(output[i + 1], Low8(Len(output) - i)))]

\* stage 1 of decrypt2 multiplying by the keystream byte where the code XORs it
decrypt2_stage1_multiplying(input) ==
    LET length == Len(input)
    IN  [k \in 1..length |->
            LET i == k - 1
            IN  Low8(input[(length + BitNot(i)) + 1] * Low8(length - i * length))]

\* decrypt2, stage 1 (pka2xml.hpp:151-158)
decrypt2_stage1(input) ==
    LET length == Len(input)
    IN  [k \in 1..length |->
            LET i == k - 1
            IN  Low8(BitXor(input[(length + BitNot(i)) + 1], Low8(length - i * length)))]

\* decrypt_old running the reversing pass of decrypt's stage 1 instead
decrypt_old_xor_reversing(input) == decrypt2_stage1(input)

\* the pass of decrypt_old adding size - i where the code XORs it
decrypt_old_xor_adding(input) ==
    [k \in 1..Len(input) |-> Low8(input[k] + Low8(Len(input) - (k - 1)))]

\* decrypt_old, the loop (pka2xml.hpp:236-238)
decrypt_old_xor(input) ==
    [k \in 1..Len(input) |->
        LET i == k - 1
        IN  Low8(BitXor(input[i + 1], Low8(Len(input) - i)))]

\* encrypt, stage 2 (pka2xml.hpp:267-270)
encrypt_stage2(compressed, key) ==
    [k \in 1..Len(compressed) |->
        LET i == k - 1
        IN  Low8(BitXor(compressed[i + 1], key[(i % KeySize) + 1]))]

\* stage 4 of encrypt writing output[i] in place of output[length + ~i]
encrypt_stage4_noreverse(encrypted, key) ==
    [k \in 1..Len(encrypted) |->
        Low8(BitXor(encrypted[k], key[((k - 1) % KeySize) + 1]))]

\* encrypt, stage 4 (pka2xml.hpp:278-283): output[length + ~i] is written for
\* i = 0..length-1, so position p holds the byte computed for i = length - 1 - p
encrypt_stage4(encrypted, key) ==
    LET length == Len(encrypted)
    IN  [k \in 1..length |->
            LET i == length - k
            IN  Low8(BitXor(encrypted[i + 1], key[(i % KeySize) + 1]))]

\* is_old_pt without the comparison of the first byte
is_old_pt_nonempty(str) == Len(str) > 0

\* is_old_pt (pka2xml.hpp:328-330)
is_old_pt(str) == Len(str) > 0 /\ str[1] = 31

(***************************************************************************)
(* Key material (function-local statics)                                   *)
(***************************************************************************)
decrypt_pka_key == [i \in 1..KeySize |-> 137]

decrypt_pka_iv == [i \in 1..KeySize |-> 16]

decrypt_logs_key == [i \in 1..KeySize |-> 186]

decrypt_logs_iv == [i \in 1..KeySize |-> 190]

decrypt_nets_key == [i \in 1..KeySize |-> 186]

decrypt_nets_iv == [i \in 1..KeySize |-> 190]

encrypt_pka_key == [i \in 1..KeySize |-> 137]

encrypt_pka_iv == [i \in 1..KeySize |-> 16]

encrypt_nets_key == [i \in 1..KeySize |-> 186]

encrypt_nets_iv == [i \in 1..KeySize |-> 190]

\* the key and iv the running function passes to decrypt / decrypt2 / encrypt
KeyOf(f) ==
    CASE f = "decrypt_pka"  -> decrypt_pka_key
      [] f = "decrypt_logs" -> decrypt_logs_key
      [] f = "decrypt_nets" -> decrypt_nets_key
      [] f = "encrypt_pka"  -> encrypt_pka_key
      [] f = "encrypt_nets" -> encrypt_nets_key

IvOf(f) ==
    CASE f = "decrypt_pka"  -> decrypt_pka_iv
      [] f = "decrypt_logs" -> decrypt_logs_iv
      [] f = "decrypt_nets" -> decrypt_nets_iv
      [] f = "encrypt_pka"  -> encrypt_pka_iv
      [] f = "encrypt_nets" -> encrypt_nets_iv

(***************************************************************************)
(* The files Packet Tracer writes: the inputs of the decoders.  The format *)
(* is the one the doc comments of decrypt, decrypt_logs and decrypt_old    *)
(* describe; these are the inverses of the decoding stages.                *)
(***************************************************************************)
\* the pass that decrypt's stage 1 undoes: b[i] = a[l + ~i] ^ (l - i * l)
pt_obfuscate(a) ==
    LET l == Len(a)
    IN  [k \in 1..l |->
            LET i == l - k
            IN  BitXor(a[i + 1], Low8(l - i * l))]

\* the pass that decrypt's stage 3 and decrypt_old undo: b[i] = a[i] ^ (l - i)
pt_xor(a) == [k \in 1..Len(a) |-> BitXor(a[k], Low8(Len(a) - (k - 1)))]

\* an encrypted and obfuscated record holding payload
pt_seal(key, iv, payload) == pt_obfuscate(eax_encrypt(key, iv, payload))

\* a .pka / .pkt file holding xml
pt_pka_file(xml) == pt_seal(decrypt_pka_key, decrypt_pka_iv, pt_xor(compress(xml).val))

\* a "nets" file holding text
pt_nets_file(text) == pt_seal(decrypt_nets_key, decrypt_nets_iv, text)

\* the base64 alphabet
b64_char(v) ==
    IF v < 26 THEN v + 65
    ELSE IF v < 52 THEN v + 71
    ELSE IF v < 62 THEN v - 4
    ELSE IF v = 62 THEN 43
    ELSE 47

\* base64 text of data, '=' padded
b64_encode(data) ==
    LET n == Len(data)
        at(i) == IF i <= n THEN data[i] ELSE 0
        group(g) ==
            LET b0 == at(3 * g + 1)
                b1 == at(3 * g + 2)
                b2 == at(3 * g + 3)
                have == n - 3 * g
            IN  << b64_char(b0 \div 4),
                   b64_char((b0 % 4) * 16 + b1 \div 16),
                   IF have >= 2 THEN b64_char((b1 % 16) * 4 + b2 \div 64) ELSE 61,
                   IF have >= 3 THEN b64_char(b2 % 64) ELSE 61 >>
    IN  [k \in 1..(4 * ((n + 2) \div 3)) |-> group((k - 1) \div 4)[((k - 1) % 4) + 1]]

\* one line of a log file holding text
pt_log_line(text) == b64_encode(pt_seal(decrypt_logs_key, decrypt_logs_iv, text))

\* a file of the old format holding xml
pt_old_file(xml) == pt_xor(compress(xml).val)

(***************************************************************************)
(* Inputs                                                                  *)
(***************************************************************************)
\* longest plaintext
MaxLen == 2

\* bytes of the plaintexts: NUL, the old-format marker 0x1f, 'a'
PlainBytes == {0, 31, 97}

Plain == UNION {[1..n -> PlainBytes] : n \in 0..MaxLen}

\* a frame whose header declares L bytes, whatever its stream holds
FrameOf(L, xml) == compress_header(L) \o zlib_compress2(xml, Len(xml) + 13).out

\* header-declared lengths tried against each stream
DeclaredLens == 0..(MaxLen + 1)

\* a sequence without its last byte
DropLast(s) == SubSeq(s, 1, Len(s) - 1)

\* a plaintext of 16 bytes: its frame has 31 bytes, and the first byte of its
\* old-format file is 0 ^ 31, the byte is_old_pt looks for
OldXml == [i \in 1..16 |-> 97]

Inputs ==
    Plain
    \cup { <<10, 20, 30, 40>> }
    \cup { pt_pka_file(x) : x \in Plain }
    \cup { pt_seal(decrypt_pka_key, decrypt_pka_iv, x) : x \in Plain }
    \cup { pt_nets_file(x) : x \in Plain }
    \cup { pt_log_line(x) : x \in Plain }
    \cup { Append(pt_log_line(x), 13) : x \in Plain }
    \cup { pt_old_file(x) : x \in Plain }
    \cup { pt_old_file(OldXml) }
    \cup { FrameOf(L, x) : L \in DeclaredLens, x \in Plain }
    \cup { DropLast(FrameOf(Len(x), x)) : x \in Plain }

\* file contents c with bit b of its byte p inverted
FlipBit(c, p, b) == [c EXCEPT ![p] = BitXor(c[p], 2 ^ b)]

\* the decoders of sealed files, whose input may be a damaged copy of a file
\* they decoded
Openers == {"decrypt_pka", "decrypt_nets"}

\* the int (data[0] << 24) | (data[1] << 16) | (data[2] << 8) | data[3]
\* converted to unsigned long (64 bits on the Linux and macOS builds), least
\* significant digit first: an int with bit 31 set is negative and its
\* conversion fills the upper four bytes with ones
uncompress_len_digits(data) ==
    LET ext == IF data[1] >= 128 THEN 255 ELSE 0
    IN  <<data[4], data[3], data[2], data[1], ext, ext, ext, ext>>

\* headers for which len is computed
SampleHeaders ==
    { <<0, 0, 0, 0>>, <<0, 0, 0, 1>>, <<1, 2, 3, 4>>, <<0, 255, 255, 255>>,
      <<127, 255, 255, 255>>, <<128, 0, 0, 0>>, <<128, 0, 0, 1>>, <<200, 1, 2, 3>>,
      <<255, 255, 255, 255>> }

\* indices for which the keystream byte of stage 1 is computed
SampleIndices(l) ==
    { i \in {0, 1, 2, 3, 255, 256, 257, 46340, 46341, 65535, 65536, 16777216,
              l \div 2, l - 2, l - 1} : 0 <= i /\ i < l }

\* buffer sizes for which the header bytes of compress are computed
SampleLens ==
    { x * e : x \in {1, 2, 127, 128, 255}, e \in {1, 256, 65536} }
    \cup { x * 16777216 : x \in {1, 2, 127} }
    \cup { 0, 16909060, 2147483647, 2147417596 }

(***************************************************************************)
(* State                                                                   *)
(*   fn, arg   the function being run (or last run) and its argument       *)
(*   pc        "idle", or the stage the running call is at                 *)
(*   buf, pre  the working buffer, and the buffer the last stage read      *)
(*   stages    the stages the call has run: name, input, output, key, iv   *)
(*   ret       the result of the last call                                 *)
(*   origin    for an argument that is the previous call's result: that    *)
(*             call's function and argument                                *)
(*   nbytes, hdr  a buffer size and the header bytes compress writes for it*)
(*   statics   the function-local static key and iv arrays initialised so  *)
(*             far in this run of the program, by function name            *)
(*   prev      for a call that repeats the previous call: that call's      *)
(*             result                                                      *)
(*   thr       the threads started after the call: for each its function,  *)
(*             position, argument, working buffer and result               *)
(*   keystream the length, index and byte of a stage-1 keystream byte       *)
(*             computed for a buffer whose contents are not represented    *)
(*   framelen  the four header bytes of a frame and the unsigned long len   *)
(*             uncompress computes from them, as eight base-256 digits     *)
(*   profile   a call of modify_user_profile on a document: the document,  *)
(*             the new name, the verbose flag and the result               *)
(*   batch     a run of the -rb loop: the file arguments, the new name, the *)
(*             verbose flag, which of the two copies of the loop runs, the *)
(*             index of the next file, the arguments attempted so far, the *)
(*             two counters, and where the run is: in the loop, at the     *)
(*             summary, or ended by die                                    *)
(***************************************************************************)
NoOrigin == [fn |-> "none", arg |-> <<>>]

Producers == {"compress", "encrypt_pka", "encrypt_nets"}

Init ==
    /\ fn = "none"
    /\ pc = "idle"
    /\ arg = <<>>
    /\ buf = <<>>
    /\ pre = <<>>
    /\ stages = <<>>
    /\ ret = NoRet
    /\ origin = NoOrigin
    /\ nbytes = 0
    /\ hdr = <<>>
    /\ statics = <<>>
    /\ prev = NoRet
    /\ thr = <<>>
    /\ keystream = <<>>
    /\ framelen = <<>>
    /\ profile = <<>>
    /\ batch = <<>>

\* the functions that hold a static key and iv
Keyed == {"decrypt_pka", "decrypt_logs", "decrypt_nets", "encrypt_pka", "encrypt_nets"}

\* function f is entered with argument x; its static arrays are initialised
\* the first time control passes their declaration
Enter(f, x, o, p, entry) ==
    /\ statics' = IF f \in Keyed /\ f \notin DOMAIN statics
                  THEN statics @@ (f :> [key |-> KeyOf(f), iv |-> IvOf(f)])
                  ELSE statics
    /\ prev' = p
    /\ fn' = f
    /\ arg' = x
    /\ buf' = x
    /\ pre' = <<>>
    /\ stages' = <<>>
    /\ ret' = NoRet
    /\ origin' = o
    /\ pc' = entry
    /\ nbytes' = 0
    /\ hdr' = <<>>
    /\ thr' = thr
    /\ keystream' = keystream
    /\ framelen' = framelen
    /\ profile' = profile
    /\ batch' = batch

\* no call has been made yet in this run of the program
Fresh ==
    /\ pc = "idle" /\ fn = "none" /\ hdr = <<>> /\ keystream = <<>> /\ framelen = <<>>
    /\ profile = <<>>
    /\ batch = <<>>

\* a call of f: on any input file, on what a producer just returned for a
\* plaintext, on a copy, with one bit inverted, of the file f just decoded, or
\* once more on the argument of the call of f that just ended
Call(f, entry) ==
    /\ pc = "idle"
    /\ thr = <<>>
    /\ \/ /\ Fresh
          /\ \E x \in Inputs : Enter(f, x, NoOrigin, NoRet, entry)
       \/ /\ fn = f
          /\ f \in Openers
          /\ origin = NoOrigin
          /\ ret.kind = "ok"
          /\ \E p \in 1..Len(arg), b \in 0..7 :
                Enter(f, FlipBit(arg, p, b), [fn |-> "flip", arg |-> arg], NoRet, entry)
       \/ /\ fn \in Producers
          /\ origin = NoOrigin
          /\ arg \in Plain
          /\ ret.kind = "ok"
          /\ Enter(f, ret.val, [fn |-> fn, arg |-> arg], NoRet, entry)
       \/ /\ fn = f
          /\ origin.fn \notin {"flip", "again"}
          /\ ret.kind # "none"
          /\ Enter(f, arg, [fn |-> "again", arg |-> arg], ret, entry)

StageRec(name, out, good, key, iv) ==
    [name |-> name, in |-> buf, out |-> out, ok |-> good, key |-> key, iv |-> iv]

\* a stage completes and the call goes on at next
Step(name, out, key, iv, next) ==
    /\ buf' = out
    /\ pre' = buf
    /\ stages' = Append(stages, StageRec(name, out, TRUE, key, iv))
    /\ pc' = next
    /\ UNCHANGED <<fn, arg, ret, origin, nbytes, hdr, statics, prev, thr, keystream, framelen, profile, batch>>

\* the last stage returns r.val, or a stage throws r: the call ends
Finish(name, r, key, iv) ==
    /\ buf' = r.val
    /\ pre' = buf
    /\ stages' = Append(stages, StageRec(name, r.val, r.kind = "ok", key, iv))
    /\ ret' = r
    /\ pc' = "idle"
    /\ UNCHANGED <<fn, arg, origin, nbytes, hdr, statics, prev, thr, keystream, framelen, profile, batch>>

(***************************************************************************)
(* uncompress, compress, is_old_pt called on their own                     *)
(***************************************************************************)
call_uncompress == Call("uncompress", "uncompress")

\* uncompress throwing an exception of its own for an input without a header
uncompress_Run_typed ==
    /\ pc = "uncompress"
    /\ Finish("inflate",
              IF Len(buf) < 4 THEN ThrowExc("std::invalid_argument") ELSE uncompress(buf),
              <<>>, <<>>)

uncompress_Run ==
    /\ pc = "uncompress"
    /\ Finish("inflate", uncompress(buf), <<>>, <<>>)

call_compress == Call("compress", "compress")

compress_Run ==
    /\ pc = "compress"
    /\ Finish("deflate", compress(buf), <<>>, <<>>)

\* compress on a buffer of n bytes whose contents are not represented:
\* the four header bytes it stores (pka2xml.hpp:81-85)
compress_Header ==
    /\ Fresh
    /\ \E n \in SampleLens :
        /\ nbytes' = n
        /\ hdr' = compress_header(n)
    /\ fn' = "none"
    /\ arg' = <<>>
    /\ buf' = <<>>
    /\ pre' = <<>>
    /\ stages' = <<>>
    /\ ret' = NoRet
    /\ origin' = NoOrigin
    /\ UNCHANGED <<pc, statics, prev, thr, keystream, framelen, profile, batch>>

\* stage 1 of decrypt on a buffer of l bytes whose contents are not
\* represented: the keystream byte at index i (pka2xml.hpp:116-118)
decrypt_Keystream ==
    /\ Fresh
    /\ \E l \in SampleLens \cup {46341, 70000001} : \E i \in SampleIndices(l) :
          keystream' = [length |-> l, i |-> i, byte |-> decrypt_keystream(l, i)]
    /\ UNCHANGED <<fn, pc, arg, buf, pre, stages, ret, origin, nbytes, hdr, statics, prev, thr, framelen, profile, batch>>

\* uncompress reading the header of a frame whose stream is not represented
\* (pka2xml.hpp:35-38)
uncompress_Header ==
    /\ Fresh
    /\ \E h \in SampleHeaders :
          framelen' = [data |-> h, len |-> uncompress_len_digits(h)]
    /\ UNCHANGED <<fn, pc, arg, buf, pre, stages, ret, origin, nbytes, hdr, statics, prev, thr, keystream, profile, batch>>

call_is_old_pt == Call("is_old_pt", "is_old_pt")

is_old_pt_Run ==
    /\ pc = "is_old_pt"
    /\ ret' = OkBool(is_old_pt(buf))
    /\ pc' = "idle"
    /\ UNCHANGED <<fn, arg, buf, pre, stages, origin, nbytes, hdr, statics, prev, thr, keystream, framelen, profile, batch>>

(***************************************************************************)
(* decrypt_pka -> decrypt<Twofish> (pka2xml.hpp:105-133, 176-183)          *)
(***************************************************************************)
call_decrypt_pka == Call("decrypt_pka", "decrypt_1")

decrypt_Stage1 ==
    /\ pc = "decrypt_1"
    /\ Step("deobfuscate_a", decrypt_stage1(buf), <<>>, <<>>, "decrypt_2")

\* AuthenticatedDecryptionFilter without THROW_EXCEPTION: the bytes before the
\* tag are deciphered and passed on whatever the tag
decrypt_Stage2_unverified ==
    /\ pc = "decrypt_2"
    /\ LET n == IF Len(buf) < TagLen THEN 0 ELSE Len(buf) - TagLen
       IN  Step("aead_decrypt",
                [i \in 1..n |-> BitXor(buf[i], eax_keystream(statics[fn].key, statics[fn].iv, i))],
                statics[fn].key, statics[fn].iv, "decrypt_3")

decrypt_Stage2 ==
    /\ pc = "decrypt_2"
    /\ LET d == eax_decrypt(statics[fn].key, statics[fn].iv, buf)
       IN  IF d.ok
           THEN Step("aead_decrypt", d.out, statics[fn].key, statics[fn].iv, "decrypt_3")
           ELSE Finish("aead_decrypt", ThrowExc("HashVerificationFailed"), statics[fn].key, statics[fn].iv)

\* decrypt going from stage 2 straight to stage 4
decrypt_Stage3_skipped ==
    /\ pc = "decrypt_3"
    /\ pc' = "decrypt_4"
    /\ UNCHANGED <<fn, arg, buf, pre, stages, ret, origin, nbytes, hdr, statics, prev, thr, keystream, framelen, profile, batch>>

decrypt_Stage3 ==
    /\ pc = "decrypt_3"
    /\ Step("deobfuscate_b", decrypt_stage3(buf), <<>>, <<>>, "decrypt_4")

\* stage 4 catching the exception of uncompress and returning the bytes it has
decrypt_Stage4_best_effort ==
    /\ pc = "decrypt_4"
    /\ LET r == uncompress(buf)
       IN  Finish("inflate", IF r.kind = "ok" THEN r ELSE Ok(buf), <<>>, <<>>)

decrypt_Stage4 ==
    /\ pc = "decrypt_4"
    /\ Finish("inflate", uncompress(buf), <<>>, <<>>)

(***************************************************************************)
(* decrypt_logs, decrypt_nets -> decrypt2<Twofish> (pka2xml.hpp:144-223)   *)
(***************************************************************************)
call_decrypt_nets == Call("decrypt_nets", "decrypt2_1")

call_decrypt_logs == Call("decrypt_logs", "logs_base64")

\* decrypt_logs with a decoder that rejects text that is not strict base64
decrypt_logs_Base64_strict ==
    /\ pc = "logs_base64"
    /\ IF WellFormedBase64(buf)
       THEN Step("base64_decode", Base64Decoder(buf), <<>>, <<>>, "decrypt2_1")
       ELSE Finish("base64_decode", ThrowExc("EncodingError"), <<>>, <<>>)

decrypt_logs_Base64 ==
    /\ pc = "logs_base64"
    /\ Step("base64_decode", Base64Decoder(buf), <<>>, <<>>, "decrypt2_1")

decrypt2_Stage1 ==
    /\ pc = "decrypt2_1"
    /\ Step("deobfuscate_a", decrypt2_stage1(buf), <<>>, <<>>, "decrypt2_2")

\* decrypt2 going on to stages 3 and 4 of decrypt after its stage 2
decrypt2_Stage2_continues ==
    /\ pc = "decrypt2_2"
    /\ LET d == eax_decrypt(statics[fn].key, statics[fn].iv, buf)
       IN  IF d.ok
           THEN Step("aead_decrypt", d.out, statics[fn].key, statics[fn].iv, "decrypt_3")
           ELSE Finish("aead_decrypt", ThrowExc("HashVerificationFailed"), statics[fn].key, statics[fn].iv)

\* decrypt2 turning the failure of the filter into the int the frame code throws
decrypt2_Stage2_throws_int ==
    /\ pc = "decrypt2_2"
    /\ LET d == eax_decrypt(statics[fn].key, statics[fn].iv, buf)
       IN  IF d.ok
           THEN Finish("aead_decrypt", Ok(d.out), statics[fn].key, statics[fn].iv)
           ELSE Finish("aead_decrypt", ThrowInt(Z_DATA_ERROR), statics[fn].key, statics[fn].iv)

decrypt2_Stage2 ==
    /\ pc = "decrypt2_2"
    /\ LET d == eax_decrypt(statics[fn].key, statics[fn].iv, buf)
       IN  IF d.ok
           THEN Finish("aead_decrypt", Ok(d.out), statics[fn].key, statics[fn].iv)
           ELSE Finish("aead_decrypt", ThrowExc("HashVerificationFailed"), statics[fn].key, statics[fn].iv)

(***************************************************************************)
(* decrypt_old, fix (pka2xml.hpp:235-240, 338-343)                         *)
(***************************************************************************)
call_decrypt_old == Call("decrypt_old", "old_xor")

decrypt_old_Xor ==
    /\ pc = "old_xor"
    /\ Step("xor", decrypt_old_xor(buf), <<>>, <<>>, "old_inflate")

decrypt_old_Uncompress ==
    /\ pc = "old_inflate"
    /\ Finish("inflate", uncompress(buf), <<>>, <<>>)

call_fix == Call("fix", "fix")

fix_Run_always_old ==
    /\ pc = "fix"
    /\ Step("is_old_pt", buf, <<>>, <<>>, "old_xor")

fix_Run_passthrough ==
    /\ pc = "fix"
    /\ Finish("is_old_pt", Ok(buf), <<>>, <<>>)

fix_Run ==
    /\ pc = "fix"
    /\ IF is_old_pt(buf)
       THEN Step("is_old_pt", buf, <<>>, <<>>, "old_xor")
       ELSE Finish("is_old_pt", Ok(buf), <<>>, <<>>)

(***************************************************************************)
(* encrypt_pka, encrypt_nets -> encrypt<Twofish> (pka2xml.hpp:257-320)     *)
(***************************************************************************)
call_encrypt_pka == Call("encrypt_pka", "encrypt_1")

call_encrypt_nets == Call("encrypt_nets", "encrypt_1")

encrypt_Stage1 ==
    /\ pc = "encrypt_1"
    /\ LET r == compress(buf)
       IN  IF r.kind = "ok"
           THEN Step("deflate", r.val, <<>>, <<>>, "encrypt_2")
           ELSE Finish("deflate", r, <<>>, <<>>)

encrypt_Stage2 ==
    /\ pc = "encrypt_2"
    /\ Step("obfuscate", encrypt_stage2(buf, statics[fn].key), <<>>, <<>>, "encrypt_3")

\* encrypt drawing its nonce anew at each call
encrypt_Stage3_fresh_iv ==
    /\ pc = "encrypt_3"
    /\ \E nonce \in {statics[fn].iv, [i \in 1..KeySize |-> Len(buf)]} :
          Step("aead_encrypt", eax_encrypt(statics[fn].key, nonce, buf), statics[fn].key, nonce, "encrypt_4")

encrypt_Stage3 ==
    /\ pc = "encrypt_3"
    /\ Step("aead_encrypt", eax_encrypt(statics[fn].key, statics[fn].iv, buf), statics[fn].key, statics[fn].iv, "encrypt_4")

encrypt_Stage4 ==
    /\ pc = "encrypt_4"
    /\ Finish("obfuscate_reverse", Ok(encrypt_stage4(buf, statics[fn].key)), <<>>, <<>>)

\* what main prints for a call that threw r (main.cpp:417-421): what() of a
\* std::exception, a fixed text for anything else
die_message(r) ==
    CASE r.exc = "int" -> "Unknown error occurred during file processing"
      [] r.exc = "HashVerificationFailed" -> "HashVerificationFilter: message hash or MAC not valid"
      [] r.exc = "std::length_error" -> "cannot create std::vector larger than max_size()"

(***************************************************************************)
(* modify_user_profile (pka2xml.hpp:353-403).  Strings are sequences of    *)
(* character codes; positions are 0-based as in std::string.  A size_t     *)
(* below zero stands for that value plus 2^64, which is beyond every       *)
(* size().                                                                 *)
(***************************************************************************)
\* std::string::npos
npos == -1

\* "<USER_PROFILE>"
UserProfileOpen == <<60, 85, 83, 69, 82, 95, 80, 82, 79, 70, 73, 76, 69, 62>>

\* "</USER_PROFILE>"
UserProfileClose == <<60, 47, 85, 83, 69, 82, 95, 80, 82, 79, 70, 73, 76, 69, 62>>

\* "<NAME>"
NameOpen == <<60, 78, 65, 77, 69, 62>>

\* "</NAME>"
NameClose == <<60, 47, 78, 65, 77, 69, 62>>

\* pat occurs in s at position p
OccursAt(s, pat, p) ==
    /\ p >= 0
    /\ p + Len(pat) <= Len(s)
    /\ SubSeq(s, p + 1, p + Len(pat)) = pat

\* s.find(pat, pos): the first position at or after pos where pat occurs
find(s, pat, pos) ==
    LET hits == {p \in 0..(Len(s) - Len(pat)) : p >= pos /\ OccursAt(s, pat, p)}
    IN  IF pos = npos \/ hits = {}
        THEN npos
        ELSE CHOOSE p \in hits : \A q \in hits : p <= q

\* s.substr(pos, n) throws std::out_of_range for pos > s.size()
substr_throws(s, pos) == pos < 0 \/ pos > Len(s)

\* s.replace(pos, n, r) for pos <= s.size()
replace(s, pos, n, r) ==
    SubSeq(s, 1, pos) \o r \o SubSeq(s, pos + Min(n, Len(s) - pos) + 1, Len(s))

modify_user_profile(xml, new_name, verbose) ==
    IF xml = <<>> THEN Ok(<<>>)
    ELSE
    LET profile_start == find(xml, UserProfileOpen, 0)
        profile_end   == find(xml, UserProfileClose, profile_start)
        name_start    == find(xml, NameOpen, profile_start)
        name_end      == find(xml, NameClose, name_start)
        result        == replace(xml, name_start, name_end - name_start + 7,
                                 NameOpen \o new_name \o NameClose)
    IN  IF profile_start = npos \/ profile_end = npos THEN Ok(<<>>)
        ELSE IF name_start = npos \/ name_end = npos \/ name_start > profile_end THEN Ok(<<>>)
        ELSE IF verbose /\ substr_throws(xml, name_start - 50) THEN ThrowExc("std::out_of_range")
        ELSE IF verbose /\ substr_throws(result, name_start - 50) THEN ThrowExc("std::out_of_range")
        ELSE Ok(result)

\* the pieces documents are put together from: the four tags and a letter
Tokens == {UserProfileOpen, UserProfileClose, NameOpen, NameClose, <<97>>}

\* most pieces in a document
MaxTokens == 4

RECURSIVE Flatten(_)
Flatten(ts) == IF ts = <<>> THEN <<>> ELSE Head(ts) \o Flatten(Tail(ts))

\* what may stand before the pieces: nothing, or a prolog of 50 spaces
Prologs == {<<>>, [k \in 1..50 |-> 32]}

ProfileDocs ==
    { p \o Flatten(ts) : p \in Prologs, ts \in UNION {[1..n -> Tokens] : n \in 0..MaxTokens} }

\* "b", "bc"
NewNames == {<<98>>, <<98, 99>>}

modify_user_profile_Run ==
    /\ Fresh
    /\ \E xml \in ProfileDocs, new_name \in NewNames, verbose \in BOOLEAN :
          profile' = [xml |-> xml, new_name |-> new_name, verbose |-> verbose,
                      ret |-> modify_user_profile(xml, new_name, verbose)]
    /\ UNCHANGED <<fn, pc, arg, buf, pre, stages, ret, origin, nbytes, hdr, statics, prev, thr, keystream, framelen, batch>>

(***************************************************************************)
(* The -rb loop (main.cpp:240-326) and its copy handle_batch_rename        *)
(* (command_handlers.cpp:194-275).  A file argument is a file that does    *)
(* not exist, a file that cannot be opened, or a file with contents.       *)
(***************************************************************************)
\* decrypt_pka on a whole file (pka2xml.hpp:105-133, 176-183)
decrypt_pka(input) ==
    LET d == eax_decrypt(decrypt_pka_key, decrypt_pka_iv, decrypt_stage1(input))
    IN  IF d.ok THEN uncompress(decrypt_stage3(d.out))
                ELSE ThrowExc("HashVerificationFailed")

\* encrypt_pka on a whole document (pka2xml.hpp:261-297, 301-308)
encrypt_pka(xml) ==
    LET c == compress(xml)
    IN  IF c.kind = "ok"
        THEN Ok(encrypt_stage4(eax_encrypt(encrypt_pka_key, encrypt_pka_iv,
                                           encrypt_stage2(c.val, encrypt_pka_key)),
                               encrypt_pka_key))
        ELSE c

NoFile == [exists |-> FALSE, opens |-> FALSE, contents |-> <<>>]

LockedFile == [exists |-> TRUE, opens |-> FALSE, contents |-> <<>>]

FileOf(c) == [exists |-> TRUE, opens |-> TRUE, contents |-> c]

\* a document with a user profile whose NAME element starts at position 14
ProfileXml == UserProfileOpen \o NameOpen \o <<97>> \o NameClose \o UserProfileClose

\* the file arguments: a missing file, a file that cannot be opened, a
\* Packet Tracer file with a user profile, one without a user profile, a
\* file that is no sealed record, and a sealed record that is no frame
BatchFiles ==
    { NoFile, LockedFile,
      FileOf(pt_pka_file(ProfileXml)),
      FileOf(pt_pka_file(<<97>>)),
      FileOf(<<10, 20, 30, 40>>),
      FileOf(pt_seal(decrypt_pka_key, decrypt_pka_iv, <<97>>)) }

\* most file arguments of a run
MaxFiles == 2

\* the copies of the loop
Loops == {"main", "handle_batch_rename"}

\* r is an exception that catch (const std::exception &) does not catch
Escapes(r) == r.kind = "throw" /\ r.exc = "int"

\* one pass of the loop body on file f: "success" and "fail" for the counter
\* incremented, "die" for a pass that ends the loop
batch_body(loop, f, new_name, verbose) ==
    IF ~f.exists THEN "fail"
    ELSE IF ~f.opens THEN (IF loop = "main" THEN "fail" ELSE "die")
    ELSE
    LET xml == decrypt_pka(f.contents)
        patched == modify_user_profile(xml.val, new_name, verbose)
        out == encrypt_pka(patched.val)
    IN  IF Escapes(xml) THEN "die"
        ELSE IF xml.kind = "throw" \/ xml.val = <<>> THEN "fail"
        ELSE IF patched.kind = "throw" \/ patched.val = <<>> THEN "fail"
        ELSE IF Escapes(out) THEN "die"
        ELSE IF out.kind = "throw" THEN "fail"
        ELSE "success"

batch_Start ==
    /\ Fresh
    /\ \E n \in 1..MaxFiles : \E files \in [1..n -> BatchFiles] :
       \E loop \in Loops, verbose \in BOOLEAN :
          batch' = [loop |-> loop, files |-> files, new_name |-> <<98>>, verbose |-> verbose,
                    i |-> 1, attempted |-> <<>>, success_count |-> 0, fail_count |-> 0,
                    pc |-> "loop"]
    /\ UNCHANGED <<fn, pc, arg, buf, pre, stages, ret, origin, nbytes, hdr, statics, prev, thr, keystream, framelen, profile>>

batch_File ==
    /\ batch # <<>>
    /\ batch.pc = "loop"
    /\ batch.i <= Len(batch.files)
    /\ LET r == batch_body(batch.loop, batch.files[batch.i], batch.new_name, batch.verbose)
       IN  batch' = [batch EXCEPT
                        !.attempted = Append(@, batch.i),
                        !.success_count = IF r = "success" THEN @ + 1 ELSE @,
                        !.fail_count = IF r = "fail" THEN @ + 1 ELSE @,
                        !.i = IF r = "die" THEN @ ELSE @ + 1,
                        !.pc = IF r = "die" THEN "died" ELSE @]
    /\ UNCHANGED <<fn, pc, arg, buf, pre, stages, ret, origin, nbytes, hdr, statics, prev, thr, keystream, framelen, profile>>

batch_Summary ==
    /\ batch # <<>>
    /\ batch.pc = "loop"
    /\ batch.i > Len(batch.files)
    /\ batch' = [batch EXCEPT !.pc = "summary"]
    /\ UNCHANGED <<fn, pc, arg, buf, pre, stages, ret, origin, nbytes, hdr, statics, prev, thr, keystream, framelen, profile>>

(***************************************************************************)
(* Codec calls made from two threads at once, each on a buffer of its own. *)
(* A thread runs the stages of its call one at a time; the other thread's  *)
(* stages come between them in any order.  The threads share what the      *)
(* functions share: the static key and iv arrays.                          *)
(***************************************************************************)
ThreadFns == {"decrypt_pka", "encrypt_pka", "decrypt_logs", "decrypt_nets", "encrypt_nets", "fix"}

\* the buffers the threads are given
ThreadInputs ==
    { <<97, 31>>, pt_pka_file(<<97>>), pt_log_line(<<97>>), pt_nets_file(<<97>>),
      pt_old_file(OldXml) }

\* where a call of f starts
EntryOf(f) ==
    CASE f = "decrypt_pka"  -> "decrypt_1"
      [] f = "decrypt_logs" -> "logs_base64"
      [] f = "decrypt_nets" -> "decrypt2_1"
      [] f = "fix"          -> "fix"
      [] f \in {"encrypt_pka", "encrypt_nets"} -> "encrypt_1"

NewThread(f, x) == [fn |-> f, pc |-> EntryOf(f), arg |-> x, buf |-> x, ret |-> NoRet]

\* the stage at position p of a call of f, on the thread's own buffer b: the
\* position and buffer after it, or the result that ends the call
thread_stage(f, p, b) ==
    LET key == statics[f].key
        iv == statics[f].iv
        Go(q, out) == [pc |-> q, buf |-> out, ret |-> NoRet]
        End(r) == [pc |-> "idle", buf |-> r.val, ret |-> r]
        Auth(d, q) == IF d.ok THEN Go(q, d.out) ELSE End(ThrowExc("HashVerificationFailed"))
    IN  CASE p = "decrypt_1"   -> Go("decrypt_2", decrypt_stage1(b))
          [] p = "decrypt_2"   -> Auth(eax_decrypt(key, iv, b), "decrypt_3")
          [] p = "decrypt_3"   -> Go("decrypt_4", decrypt_stage3(b))
          [] p = "decrypt_4"   -> End(uncompress(b))
          [] p = "logs_base64" -> Go("decrypt2_1", Base64Decoder(b))
          [] p = "decrypt2_1"  -> Go("decrypt2_2", decrypt2_stage1(b))
          [] p = "decrypt2_2"  ->
                LET d == eax_decrypt(key, iv, b)
                IN  IF d.ok THEN End(Ok(d.out)) ELSE End(ThrowExc("HashVerificationFailed"))
          [] p = "fix"         -> IF is_old_pt(b) THEN Go("old_xor", b) ELSE End(Ok(b))
          [] p = "old_xor"     -> Go("old_inflate", decrypt_old_xor(b))
          [] p = "old_inflate" -> End(uncompress(b))
          [] p = "encrypt_1"   ->
                LET r == compress(b)
                IN  IF r.kind = "ok" THEN Go("encrypt_2", r.val) ELSE End(r)
          [] p = "encrypt_2"   -> Go("encrypt_3", encrypt_stage2(b, key))
          [] p = "encrypt_3"   -> Go("encrypt_4", eax_encrypt(key, iv, b))
          [] p = "encrypt_4"   -> End(Ok(encrypt_stage4(b, key)))

\* after a call has run on its own, the same call is made again from one
\* thread while a second thread makes a call of its own
spawn_threads ==
    /\ pc = "idle"
    /\ thr = <<>>
    /\ fn \in ThreadFns
    /\ arg \in ThreadInputs
    /\ origin = NoOrigin
    /\ ret.kind # "none"
    /\ \E g \in ThreadFns, y \in ThreadInputs :
          /\ thr' = <<NewThread(fn, arg), NewThread(g, y)>>
          /\ statics' = IF g \in Keyed /\ g \notin DOMAIN statics
                        THEN statics @@ (g :> [key |-> KeyOf(g), iv |-> IvOf(g)])
                        ELSE statics
    /\ UNCHANGED <<fn, pc, arg, buf, pre, stages, ret, origin, nbytes, hdr, prev, keystream, framelen, profile, batch>>

\* a stage that works in place on the shared key array
thread_Step_writes_key(t) ==
    /\ t \in DOMAIN thr
    /\ thr[t].pc # "idle"
    /\ LET r == thread_stage(thr[t].fn, thr[t].pc, thr[t].buf)
       IN  thr' = [thr EXCEPT ![t].pc = r.pc, ![t].buf = r.buf, ![t].ret = r.ret]
    /\ statics' = IF thr[t].fn \in Keyed
                  THEN [statics EXCEPT ![thr[t].fn].key = [i \in 1..KeySize |-> (@[i] + 1) % 256]]
                  ELSE statics
    /\ UNCHANGED <<fn, pc, arg, buf, pre, stages, ret, origin, nbytes, hdr, prev, keystream, framelen, profile, batch>>

\* thread t runs the next stage of its call
thread_Step(t) ==
    /\ t \in DOMAIN thr
    /\ thr[t].pc # "idle"
    /\ LET r == thread_stage(thr[t].fn, thr[t].pc, thr[t].buf)
       IN  thr' = [thr EXCEPT ![t].pc = r.pc, ![t].buf = r.buf, ![t].ret = r.ret]
    /\ UNCHANGED <<fn, pc, arg, buf, pre, stages, ret, origin, nbytes, hdr, statics, prev, keystream, framelen, profile, batch>>

\* the program ends; the next run starts afresh
Exit ==
    /\ pc = "idle"
    /\ ~Fresh
    /\ fn' = "none"
    /\ arg' = <<>>
    /\ buf' = <<>>
    /\ pre' = <<>>
    /\ stages' = <<>>
    /\ ret' = NoRet
    /\ origin' = NoOrigin
    /\ nbytes' = 0
    /\ hdr' = <<>>
    /\ statics' = <<>>
    /\ prev' = NoRet
    /\ thr' = <<>>
    /\ keystream' = <<>>
    /\ framelen' = <<>>
    /\ profile' = <<>>
    /\ batch' = <<>>
    /\ UNCHANGED pc

Next ==
    \/ Exit
    \/ call_uncompress \/ uncompress_Run
    \/ call_compress \/ compress_Run \/ compress_Header
    \/ decrypt_Keystream
    \/ uncompress_Header
    \/ modify_user_profile_Run
    \/ batch_Start \/ batch_File \/ batch_Summary
    \/ call_is_old_pt \/ is_old_pt_Run
    \/ call_decrypt_pka \/ decrypt_Stage1 \/ decrypt_Stage2 \/ decrypt_Stage3 \/ decrypt_Stage4
    \/ call_decrypt_nets \/ call_decrypt_logs \/ decrypt_logs_Base64
    \/ decrypt2_Stage1 \/ decrypt2_Stage2
    \/ call_decrypt_old \/ decrypt_old_Xor \/ decrypt_old_Uncompress
    \/ call_fix \/ fix_Run
    \/ call_encrypt_pka \/ call_encrypt_nets
    \/ encrypt_Stage1 \/ encrypt_Stage2 \/ encrypt_Stage3 \/ encrypt_Stage4
    \/ spawn_threads
    \/ \E t \in 1..2 : thread_Step(t)

Spec == Init /\ [][Next]_vars

(***************************************************************************)
(* Properties                                                              *)
(***************************************************************************)
\* the names of the stages the call has run so far
StageNames == [k \in 1..Len(stages) |-> stages[k].name]

\* s is an initial part of t
IsPrefix(s, t) == Len(s) <= Len(t) /\ s = SubSeq(t, 1, Len(s))

\* a call of f has ended
Ended(f) == pc = "idle" /\ fn = f /\ ret.kind # "none"

\* C1: decoding the container that encrypt_pka / encrypt_nets produced for a
\* plaintext X succeeds and returns exactly X.
C1_RoundTrip ==
    (\/ Ended("decrypt_pka") /\ origin.fn = "encrypt_pka"
     \/ Ended("decrypt_nets") /\ origin.fn = "encrypt_nets")
    => ret = Ok(origin.arg)

\* C2: compress returns a frame for every X, and uncompress of that frame
\* succeeds and returns exactly X (the empty X and X with zero bytes included).
C2_FrameRoundTrip ==
    /\ Ended("compress") => ret.kind = "ok"
    /\ (Ended("uncompress") /\ origin.fn = "compress") => ret = Ok(origin.arg)

C2_Witness ==
    /\ Ended("uncompress")
    /\ origin = [fn |-> "compress", arg |-> <<0, 97>>]
    /\ ret.kind = "ok"

\* the number a 4-byte big-endian header denotes
BigEndian(h) == h[1] * 16777216 + h[2] * 65536 + h[3] * 256 + h[4]

\* C3: the first 4 bytes of compress(X) are bytes whose big-endian value is
\* len(X), and the bytes from offset 4 on are a zlib stream that inflates to X.
C3_FrameLength ==
    /\ hdr # <<>> =>
          /\ Len(hdr) = 4
          /\ \A k \in 1..4 : hdr[k] \in Byte
          /\ BigEndian(hdr) = nbytes
    /\ (Ended("compress") /\ ret.kind = "ok") =>
          /\ Len(ret.val) >= 4
          /\ \A k \in 1..4 : ret.val[k] \in Byte
          /\ BigEndian(ret.val) = Len(arg)
          /\ LET z == zlib_uncompress(SubSeq(ret.val, 5, Len(ret.val)), Len(arg) + 1)
             IN  z.res = Z_OK /\ z.out = arg

C3_Witness == nbytes = 16909060 /\ hdr = <<1, 2, 3, 4>>

\* the length a zlib stream inflates to when nothing limits the output, -1 for
\* a stream that does not inflate
InflatedLen(stream) ==
    LET z == zlib_uncompress(stream, 65535)
    IN  IF z.res = Z_OK THEN z.len ELSE -1

\* the last stage of the call was uncompress, on the buffer pre
UncompressEnded ==
    /\ pc = "idle"
    /\ ret.kind # "none"
    /\ stages # <<>>
    /\ stages[Len(stages)].name = "inflate"

\* C4: when the payload inflates to a length other than the length L of the
\* header, uncompress fails; when it returns, the result has exactly L bytes.
C4_MismatchAborts ==
    (UncompressEnded /\ Len(pre) >= 4 /\ pre[1] < 128) =>
        LET L == BigEndian(pre)
            m == InflatedLen(SubSeq(pre, 5, Len(pre)))
        IN  /\ (m >= 0 /\ m # L) => ret.kind = "throw"
            /\ ret.kind = "ok" => Len(ret.val) = L

\* Deobfuscate-A as the specification states it, on 0-based indices
DeobfuscateA(a) ==
    LET l == Len(a)
    IN  [k \in 1..l |-> BitXor(a[(l - 1 - (k - 1)) + 1], (l - (k - 1) * l) % 256)]

\* C5: stage 1 of decrypt and of decrypt2 maps input a of length l to
\* processed[i] = a[l-1-i] XOR ((l - i*l) mod 256), of length l;
\* [10,20,30,40] maps to [44,30,232,242].
C5_DeobfuscateA ==
    pc \in {"decrypt_2", "decrypt2_2"} =>
        /\ Len(buf) = Len(pre)
        /\ buf = DeobfuscateA(pre)
        /\ pre = <<10, 20, 30, 40>> => buf = <<44, 30, 232, 242>>

C5_Witness ==
    /\ pc = "decrypt_2"
    /\ pre = <<10, 20, 30, 40>>
    /\ buf = <<44, 30, 232, 242>>

\* Deobfuscate-B as the specification states it
DeobfuscateB(o) == [k \in 1..Len(o) |-> BitXor(o[k], (Len(o) - (k - 1)) % 256)]

\* C6: stage 3 of decrypt replaces byte i of the AEAD output of length n by
\* output[i] XOR ((n - i) mod 256); the length is unchanged, no byte moves.
C6_DeobfuscateB ==
    pc = "decrypt_4" =>
        /\ stages[2].name = "aead_decrypt" /\ stages[2].ok
        /\ pre = stages[2].out
        /\ Len(buf) = Len(pre)
        /\ buf = DeobfuscateB(pre)

C6_Witness == pc = "decrypt_4" /\ Len(pre) >= 3 /\ buf # pre

\* C7: decrypt_pka runs Deobfuscate-A, AEAD-decrypt under key 0x89 x16 and
\* IV 0x10 x16, Deobfuscate-B and Inflate-frame, once each and in this order,
\* each on the whole output of the stage before, and returns what the
\* Inflate-frame stage returned.
C7_StageOrder ==
    fn = "decrypt_pka" =>
        /\ IsPrefix(StageNames, <<"deobfuscate_a", "aead_decrypt", "deobfuscate_b", "inflate">>)
        /\ \A k \in 1..Len(stages) :
              /\ stages[k].in = IF k = 1 THEN arg ELSE stages[k - 1].out
              /\ k > 1 => stages[k - 1].ok
        /\ Len(stages) >= 1 => stages[1].out = DeobfuscateA(arg)
        /\ Len(stages) >= 2 =>
              LET d == eax_decrypt([i \in 1..16 |-> 137], [i \in 1..16 |-> 16], stages[2].in)
              IN  /\ stages[2].key = [i \in 1..16 |-> 137]
                  /\ stages[2].iv = [i \in 1..16 |-> 16]
                  /\ stages[2].ok = d.ok
                  /\ d.ok => stages[2].out = d.out
        /\ Len(stages) >= 3 => stages[3].out = DeobfuscateB(stages[3].in)
        /\ Len(stages) >= 4 => ret = uncompress(stages[4].in)
        /\ (pc = "idle" /\ ret.kind = "ok") =>
              /\ Len(stages) = 4
              /\ ret.val = stages[4].out
        /\ pc \in {"decrypt_1", "decrypt_2", "decrypt_3", "decrypt_4", "idle"}
        /\ pc # "idle" => buf = (IF stages = <<>> THEN arg ELSE stages[Len(stages)].out)

C7_Witness ==
    /\ Ended("decrypt_pka")
    /\ ret = Ok(<<97, 0>>)
    /\ Len(stages) = 4

\* what decrypt2 returns for input under (key, iv): Deobfuscate-A, then
\* AEAD-decrypt, and nothing after it
Decrypt2Of(input, key, iv) ==
    LET d == eax_decrypt(key, iv, DeobfuscateA(input))
    IN  IF d.ok THEN Ok(d.out) ELSE ThrowExc("HashVerificationFailed")

\* C8: decrypt_logs and decrypt_nets return the AEAD-decrypt output as it is,
\* never run Deobfuscate-B or uncompress, and decrypt_logs is decrypt_nets
\* applied to the base64 decoding of its input.
C8_LogsNetsTruncation ==
    fn \in {"decrypt_logs", "decrypt_nets"} =>
        /\ \A k \in 1..Len(stages) : stages[k].name \notin {"deobfuscate_b", "inflate"}
        /\ pc \in {"logs_base64", "decrypt2_1", "decrypt2_2", "idle"}
        /\ IsPrefix(StageNames,
                    IF fn = "decrypt_logs"
                    THEN <<"base64_decode", "deobfuscate_a", "aead_decrypt">>
                    ELSE <<"deobfuscate_a", "aead_decrypt">>)
        /\ Ended("decrypt_nets") =>
              ret = Decrypt2Of(arg, [i \in 1..16 |-> 186], [i \in 1..16 |-> 190])
        /\ Ended("decrypt_logs") =>
              ret = Decrypt2Of(Base64Decoder(arg), [i \in 1..16 |-> 186], [i \in 1..16 |-> 190])
        /\ (pc = "idle" /\ ret.kind = "ok") =>
              /\ stages[Len(stages)].name = "aead_decrypt"
              /\ ret.val = stages[Len(stages)].out

C8_Witness ==
    /\ Ended("decrypt_logs")
    /\ ret = Ok(<<97, 0>>)

\* C9: decrypt_old(X) is uncompress of Y with Y[i] = X[i] XOR ((len(X) - i) mod 256);
\* nothing is reversed and no cipher stage runs.
C9_Legacy ==
    fn = "decrypt_old" =>
        /\ IsPrefix(StageNames, <<"xor", "inflate">>)
        /\ pc = "old_inflate" => buf = DeobfuscateB(arg)
        /\ Ended("decrypt_old") => ret = uncompress(DeobfuscateB(arg))

C9_Witness ==
    /\ Ended("decrypt_old")
    /\ ret = Ok(<<0, 97>>)

\* C10: is_old_pt(X) is true exactly when X is non-empty and its first byte
\* is 0x1F; it is false for the empty input, and it never fails.
C10_IsOldPt ==
    Ended("is_old_pt") =>
        /\ ret.kind = "ok"
        /\ ret.flag <=> (arg # <<>> /\ Head(arg) = 31)
        /\ arg = <<>> => ~ret.flag

C10_Witness ==
    /\ Ended("is_old_pt")
    /\ ret.flag
    /\ Len(arg) > 1

\* C11: fix on an input that is_old_pt detects (first byte 0x1f) returns
\* exactly what decrypt_old returns for it, or throws what decrypt_old throws;
\* on every other input, the empty one included, it returns the input
\* unchanged and does not throw.
C11_Fix ==
    Ended("fix") =>
        IF arg # <<>> /\ arg[1] = 31
        THEN ret = uncompress(DeobfuscateB(arg))
        ELSE ret = Ok(arg) /\ StageNames = <<"is_old_pt">>

C11_Witness ==
    /\ Ended("fix")
    /\ arg = pt_old_file(OldXml)
    /\ ret = Ok(OldXml)
    /\ StageNames = <<"is_old_pt", "xor", "inflate">>

\* the call has run a stage of this name
RanStage(name) == \E k \in 1..Len(stages) : stages[k].name = name

\* C12 as stated: fix sends an input whose first byte is 0x1f down the legacy
\* path (XOR and inflate, no cipher) and an input with any other first byte
\* down the AEAD path.
C12_Routing ==
    (Ended("fix") /\ arg # <<>>) =>
        IF arg[1] = 31
        THEN RanStage("xor") /\ ~RanStage("aead_decrypt")
        ELSE RanStage("aead_decrypt")

\* C12 amended: fix sends an input whose first byte is 0x1f down the legacy
\* path and runs no stage at all on any other input, which it returns as it
\* is; the AEAD path is taken by decrypt_pka alone, on every input it is
\* given, whatever its first byte.
C12_RoutingAmended ==
    /\ (Ended("fix") /\ arg # <<>> /\ arg[1] = 31) =>
            /\ StageNames = <<"is_old_pt", "xor", "inflate">>
            /\ ~RanStage("aead_decrypt")
    /\ (fn = "fix" /\ ~(arg # <<>> /\ arg[1] = 31)) =>
            /\ pc \in {"fix", "idle"}
            /\ pc = "idle" => (StageNames = <<"is_old_pt">> /\ ret = Ok(arg))
    /\ Ended("decrypt_pka") =>
            /\ IsPrefix(<<"deobfuscate_a", "aead_decrypt">>, StageNames)
            /\ ~RanStage("xor")

\* fix given a valid .pka file, which does not start with 0x1f
C12_Witness ==
    /\ Ended("fix")
    /\ arg = pt_pka_file(<<97>>)
    /\ arg[1] # 31
    /\ ret = Ok(arg)
    /\ ~RanStage("aead_decrypt")

\* the number of positions at which two byte strings of equal length differ
Differing(c, d) == Cardinality({p \in 1..Len(c) : c[p] # d[p]})

\* C13: when decrypt_pka or decrypt_nets has decoded a file, decoding a copy
\* of that file with any single bit inverted throws the authentication
\* failure at the AEAD stage: no later stage runs and nothing is returned.
C13_Tamper ==
    (origin.fn = "flip" /\ pc = "idle") =>
        /\ fn \in Openers
        /\ Len(arg) = Len(origin.arg)
        /\ Differing(arg, origin.arg) = 1
        /\ ret = ThrowExc("HashVerificationFailed")
        /\ stages[Len(stages)].name = "aead_decrypt"
        /\ ~stages[Len(stages)].ok

\* a bit of the first byte of a .pka file, which is the last byte of its tag
C13_Witness ==
    /\ Ended("decrypt_pka")
    /\ origin = [fn |-> "flip", arg |-> pt_pka_file(<<97, 0>>)]
    /\ arg = FlipBit(origin.arg, 1, 7)
    /\ ret.kind = "throw"

C16_DocumentedObfuscation ==
    fn \in {"encrypt_pka", "encrypt_nets"} =>
        /\ Len(stages) >= 2 => stages[2].out = DeobfuscateB(stages[2].in)
        /\ Len(stages) >= 4 => stages[4].out = DeobfuscateA(stages[4].in)

\* the stages of a complete call of fn
FullPipeline ==
    CASE fn = "decrypt_pka"  -> {<<"deobfuscate_a", "aead_decrypt", "deobfuscate_b", "inflate">>}
      [] fn = "decrypt_logs" -> {<<"base64_decode", "deobfuscate_a", "aead_decrypt">>}
      [] fn = "decrypt_nets" -> {<<"deobfuscate_a", "aead_decrypt">>}
      [] fn = "decrypt_old"  -> {<<"xor", "inflate">>}
      [] fn = "fix"          -> {<<"is_old_pt">>, <<"is_old_pt", "xor", "inflate">>}

\* stage record s is one of a stage that could not produce its output
StageFails(s) ==
    CASE s.name = "aead_decrypt" -> ~eax_decrypt(s.key, s.iv, s.in).ok
      [] s.name = "inflate"      -> uncompress(s.in).kind = "throw"
      [] OTHER                   -> FALSE

\* C17: in decrypt_pka, decrypt_logs, decrypt_nets, decrypt_old and fix the
\* first stage that fails ends the call with its error: no stage runs after
\* it, nothing is returned, and a call that returns has run its whole
\* pipeline without a failure and returns the last stage's output.
C17_FailClosed ==
    fn \in {"decrypt_pka", "decrypt_logs", "decrypt_nets", "decrypt_old", "fix"} =>
        /\ \A k \in 1..Len(stages) :
              /\ stages[k].ok = ~StageFails(stages[k])
              /\ ~stages[k].ok =>
                    /\ k = Len(stages)
                    /\ pc = "idle"
                    /\ ret.kind = "throw"
                    /\ ret.val = <<>>
                    /\ buf = <<>>
        /\ (pc = "idle" /\ ret.kind = "throw") => ~stages[Len(stages)].ok
        /\ (pc = "idle" /\ ret.kind = "ok") =>
              /\ StageNames \in FullPipeline
              /\ ret.val = stages[Len(stages)].out

\* decrypt_pka on a sealed record that is not a frame: the AEAD stage
\* succeeds, the inflate stage fails
C17_Witness ==
    /\ Ended("decrypt_pka")
    /\ Len(stages) = 4
    /\ stages[2].ok
    /\ ~stages[4].ok
    /\ ret.kind = "throw"

\* what uncompress throws for an input of fewer than 4 bytes
ShortFrameError == uncompress(<<>>)

\* C18 as stated: uncompress on fewer than 4 bytes fails, and the caller can
\* tell this failure from the one raised when the stream is corrupt or
\* inflates to a length other than L: the two are different values.
C18_ErrorKinds ==
    (UncompressEnded /\ ret.kind = "throw") =>
        IF Len(pre) < 4
        THEN ret = ShortFrameError
        ELSE pre[1] < 128 => ret # ShortFrameError

\* C18 amended: uncompress on fewer than 4 bytes throws the int Z_DATA_ERROR,
\* whatever the bytes; every failure on a frame (first byte below 0x80) is
\* an int as well, Z_DATA_ERROR or Z_BUF_ERROR, and it is the same
\* Z_DATA_ERROR when the stream inflates to fewer bytes than L (Z_BUF_ERROR
\* when to more than L > 0): the caller cannot tell a missing header from a
\* length mismatch.
C18_ErrorKindsAmended ==
    /\ (UncompressEnded /\ Len(pre) < 4) => ret = ThrowInt(Z_DATA_ERROR)
    /\ (UncompressEnded /\ Len(pre) >= 4 /\ pre[1] < 128) =>
          LET L == BigEndian(pre)
              m == InflatedLen(SubSeq(pre, 5, Len(pre)))
          IN  /\ ret.kind = "throw" =>
                    /\ ret.exc = "int"
                    /\ ret.code \in {Z_DATA_ERROR, Z_BUF_ERROR}
              /\ (m >= 0 /\ m < L) => ret = ThrowInt(Z_DATA_ERROR)
              /\ (m > L /\ L > 0) => ret = ThrowInt(Z_BUF_ERROR)

\* a frame declaring 2 bytes over a stream of 1 byte
C18_Witness ==
    /\ Ended("uncompress")
    /\ arg = FrameOf(2, <<97>>)
    /\ ret = ThrowInt(Z_DATA_ERROR)
    /\ ret = ShortFrameError

\* C19: a failure of the AEAD tag check in decrypt or decrypt2 reaches the
\* caller as the exception HashVerificationFailed, a frame-stage failure
\* (missing header, corrupt stream, length mismatch) as a thrown int or
\* std::length_error: never the same kind, and main reports them differently.
C19_AuthErrorTyped ==
    (pc = "idle" /\ ret.kind = "throw") =>
        LET last == stages[Len(stages)]
        IN  /\ last.name \in {"aead_decrypt", "inflate"}
            /\ last.name = "aead_decrypt" =>
                  /\ fn \in {"decrypt_pka", "decrypt_logs", "decrypt_nets"}
                  /\ ret = ThrowExc("HashVerificationFailed")
            /\ last.name = "inflate" =>
                  /\ ret.exc \in {"int", "std::length_error"}
                  /\ ret.exc # "HashVerificationFailed"
                  /\ die_message(ret) # die_message(ThrowExc("HashVerificationFailed"))

\* decrypt_logs on a line whose decoded record fails the tag check
C19_Witness ==
    /\ Ended("decrypt_logs")
    /\ StageNames = <<"base64_decode", "deobfuscate_a", "aead_decrypt">>
    /\ ret = ThrowExc("HashVerificationFailed")
    /\ die_message(ret) # "Unknown error occurred during file processing"

\* C20 as stated: decrypt_logs on a line that is not well-formed base64 fails
\* in its base64 step, before Deobfuscate-A and the AEAD stage, with an error
\* that is not the authentication error.
C20_Base64Errors ==
    (Ended("decrypt_logs") /\ ~WellFormedBase64(arg)) =>
        /\ ret.kind = "throw"
        /\ ret.exc # "HashVerificationFailed"
        /\ ~RanStage("deobfuscate_a")
        /\ ~RanStage("aead_decrypt")

\* the characters of text that belong to the base64 alphabet
AlphabetOnly(text) == SelectSeq(text, LAMBDA c : b64_lookup(c) < 256)

\* C20 amended: the base64 step of decrypt_logs never fails: it skips the
\* characters outside the alphabet and decodes the others, Deobfuscate-A and
\* the AEAD stage always run on what it decoded, and the only error of
\* decrypt_logs is the authentication error; a line that is not well-formed
\* base64 is decoded as the line without its foreign characters is.
C20_Base64Lenient ==
    fn = "decrypt_logs" =>
        /\ Len(stages) >= 1 =>
              /\ stages[1].name = "base64_decode"
              /\ stages[1].ok
              /\ stages[1].out = Base64Decoder(AlphabetOnly(arg))
              /\ Len(stages[1].out) = (6 * Len(AlphabetOnly(arg))) \div 8
        /\ Ended("decrypt_logs") =>
              /\ StageNames = <<"base64_decode", "deobfuscate_a", "aead_decrypt">>
              /\ ret.kind = "throw" => ret = ThrowExc("HashVerificationFailed")
              /\ ret = Decrypt2Of(Base64Decoder(AlphabetOnly(arg)),
                                  [i \in 1..16 |-> 186], [i \in 1..16 |-> 190])

\* a log line read with its carriage return: not base64, decoded all the same
C20_Witness ==
    /\ Ended("decrypt_logs")
    /\ arg = Append(pt_log_line(<<97, 0>>), 13)
    /\ ~WellFormedBase64(arg)
    /\ ret = Ok(<<97, 0>>)

\* C21: a codec call made from a thread while another thread makes a codec
\* call on a buffer of its own ends as the same call ended when it ran alone,
\* whatever the order in which the stages of the two calls are run; the
\* static key and iv arrays, the only data the calls share, are never changed.
C21_ThreadSafety ==
    /\ \A t \in DOMAIN thr :
          (thr[t].pc = "idle" /\ thr[t].fn = fn /\ thr[t].arg = arg) => thr[t].ret = ret
    /\ \A f \in DOMAIN statics : statics[f] = [key |-> KeyOf(f), iv |-> IvOf(f)]
    /\ thr # <<>> => (pc = "idle" /\ thr[1].fn = fn /\ thr[1].arg = arg)

\* decrypt_pka of a .pka file in one thread, encrypt_pka in the other, both done
C21_Witness ==
    /\ thr # <<>>
    /\ thr[1].fn = "decrypt_pka"
    /\ thr[1].ret = Ok(<<97>>)
    /\ thr[2].fn = "encrypt_pka"
    /\ thr[2].ret.kind = "ok"

\* (l - i * l) mod 256 over the integers: i * l is multiplied out in full,
\* to eight base-256 digits, and l is subtracted from it without any wrap
ExactKeystream(l, i) ==
    IF i = 0 THEN l % 256
    ELSE LET over == SubDigits(MulDigits(Digits(i, 4), Digits(l, 4), 8), Digits(l, 8))
         IN  (256 - over[1]) % 256

\* C22: for a length l and an index i < l the keystream byte that stage 1
\* computes as l - i * l in 32-bit wrapping arithmetic, truncated to 8 bits,
\* is (l - i * l) mod 256 over the integers, whether or not i * l overflows.
C22_KeystreamWraparound ==
    keystream # <<>> =>
        /\ keystream.byte \in Byte
        /\ keystream.byte = ExactKeystream(keystream.length, keystream.i)
        /\ keystream.length < 4096 =>
              keystream.byte = (keystream.length - keystream.i * keystream.length) % 256

\* a buffer of 70000001 bytes at its last index: i * l is about 4.9 * 10^15
C22_Witness ==
    /\ keystream # <<>>
    /\ keystream.length = 70000001
    /\ keystream.i = 70000000
    /\ keystream.byte = 1

\* C23: for every 4-byte header, a first byte of 0x80 or more included, the
\* length uncompress allocates and compares with is the unsigned big-endian
\* value of the header, below 2^32: the upper four bytes of len are zero.
C23_HeaderRange ==
    framelen # <<>> =>
        /\ \A j \in 1..4 : framelen.len[j] = framelen.data[5 - j]
        /\ \A j \in 5..8 : framelen.len[j] = 0

\* C24: the length-keyed XOR pass, byte i XOR ((len - i) mod 256), of
\* decrypt_old and of stage 3 of decrypt is its own inverse: applied to its
\* output it gives back its input.
C24_Involution ==
    /\ pc = "old_inflate" =>
          /\ buf = DeobfuscateB(pre)
          /\ decrypt_old_xor(buf) = pre
          /\ DeobfuscateB(buf) = pre
    /\ pc = "decrypt_4" =>
          /\ decrypt_stage3(buf) = pre
          /\ DeobfuscateB(buf) = pre

C24_Witness ==
    /\ pc = "old_inflate"
    /\ fn = "decrypt_old"
    /\ pre = <<10, 20, 30, 40>>
    /\ buf = <<14, 23, 28, 41>>
    /\ decrypt_old_xor(buf) = pre

\* C25: stage 1 of decrypt and of decrypt2 can be undone: the input is
\* a[j] = processed[l-1-j] XOR ((l - (l-1-j)*l) mod 256) for every j, so two
\* inputs of one length never give the same output; and an input with one
\* bit inverted gives an output with exactly one bit inverted.
C25_DeobfuscateAReversible ==
    pc \in {"decrypt_2", "decrypt2_2"} =>
        LET l == Len(pre)
        IN  /\ Len(buf) = l
            /\ \A j \in 0..(l - 1) :
                  pre[j + 1] = BitXor(buf[(l - 1 - j) + 1], (l - (l - 1 - j) * l) % 256)
            /\ origin.fn = "flip" =>
                  LET o == IF pc = "decrypt_2" THEN decrypt_stage1(origin.arg)
                                               ELSE decrypt2_stage1(origin.arg)
                  IN  /\ Differing(pre, origin.arg) = 1
                      /\ Differing(buf, o) = 1
                      /\ \A p \in 1..l :
                            buf[p] # o[p] => BitXor(buf[p], o[p]) \in {1, 2, 4, 8, 16, 32, 64, 128}

\* bit 0 of the first byte of a nets file inverted: bit 0 of the last byte
\* of the output of stage 1 is
C25_Witness ==
    /\ pc = "decrypt2_2"
    /\ origin = [fn |-> "flip", arg |-> pt_nets_file(<<97, 0>>)]
    /\ pre = FlipBit(origin.arg, 1, 0)
    /\ buf = FlipBit(decrypt2_stage1(origin.arg), Len(buf), 0)

\* the NAME elements of a document: the position of a "<NAME>" and of the
\* first "</NAME>" after it
NameElements(xml) ==
    { e \in (0..Len(xml)) \X (0..Len(xml)) :
        /\ OccursAt(xml, NameOpen, e[1])
        /\ OccursAt(xml, NameClose, e[2])
        /\ e[1] + Len(NameOpen) <= e[2]
        /\ \A q \in e[1]..(e[2] - 1) : ~OccursAt(xml, NameClose, q) }

\* the NAME elements that lie inside the USER_PROFILE section, which runs
\* from the first "<USER_PROFILE>" to the first "</USER_PROFILE>" after it
NamesInProfile(xml) ==
    { e \in NameElements(xml) :
        \E ps, pe \in 0..Len(xml) :
            /\ OccursAt(xml, UserProfileOpen, ps)
            /\ \A q \in 0..(ps - 1) : ~OccursAt(xml, UserProfileOpen, q)
            /\ OccursAt(xml, UserProfileClose, pe)
            /\ ps <= pe
            /\ \A q \in ps..(pe - 1) : ~OccursAt(xml, UserProfileClose, q)
            /\ ps + Len(UserProfileOpen) <= e[1]
            /\ e[2] + Len(NameClose) <= pe }

\* C26: modify_user_profile without verbose output, on a document with a
\* USER_PROFILE section that holds a complete NAME element, returns the
\* document with that element replaced by <NAME>new_name</NAME> and nothing
\* else changed; on every other document it returns the empty string.
C26_ProfilePatch ==
    (profile # <<>> /\ ~profile.verbose) =>
        LET xml == profile.xml
        IN  IF NamesInProfile(xml) # {}
            THEN \E e \in NamesInProfile(xml) :
                    profile.ret = Ok(SubSeq(xml, 1, e[1])
                                     \o NameOpen \o profile.new_name \o NameClose
                                     \o SubSeq(xml, e[2] + Len(NameClose) + 1, Len(xml)))
            ELSE profile.ret = Ok(<<>>)

\* C27: modify_user_profile with verbose output ends as it does without: it
\* returns the same string, and throws only if the call without verbose
\* output throws.
C27_VerboseObservationOnly ==
    profile # <<>> =>
        profile.ret = modify_user_profile(profile.xml, profile.new_name, FALSE)

\* C28: in a run of the -rb loop the file arguments are attempted once each
\* and in order, every file attempted has incremented success_count or
\* fail_count, no file ends the loop, and at the summary the two counters add
\* up to the number of file arguments.
C28_BatchIsolation ==
    batch # <<>> =>
        /\ batch.attempted = [k \in 1..Len(batch.attempted) |-> k]
        /\ batch.pc \in {"loop", "summary"}
        /\ batch.success_count + batch.fail_count = Len(batch.attempted)
        /\ batch.pc = "summary" =>
              batch.success_count + batch.fail_count = Len(batch.files)

====
